---- MODULE Spec2Model ----
(***************************************************************************)
(* Model of filip/cb/models.py: the NGSI context metadata, attribute and   *)
(* entity records (pydantic models), their field validation, the value     *)
(* coercion of ContextAttribute, and the query / mutation methods of       *)
(* ContextEntity.                                                          *)
(*                                                                         *)
(* Strings that the code inspects character by character (names, ids,      *)
(* entity types, type tags, attribute values) are sequences of code        *)
(* points.                                                                 *)
(***************************************************************************)
EXTENDS Integers, Sequences, FiniteSets, TLC

VARIABLES
    call,      \* the operation being / last invoked, with its arguments
    result,    \* what that operation returned or raised
    entity,    \* the ContextEntity object under observation (if constructed)
    build      \* how the installed libraries validate a member of DataTypes

vars == <<call, result, entity, build>>

----------------------------------------------------------------------------
(* Bounds of the model *)

\* longest attribute value string drawn as an input
MaxValueLen == 2
\* longest name / id / entity type drawn character by character
MaxNameLen == 2

\* max_length of every constrained str field
MaxLength == 256
\* min_length of every constrained str field
MinLength == 1

----------------------------------------------------------------------------
(* Python values.  One record shape for every kind:                        *)
(*   float  n / 10^d, normalised (d = 0 or n not divisible by 10)          *)
(*   bool   n = 1 (True) or 0 (False)                                      *)
(*   int    n                                                              *)
(*   str    s, a sequence of code points                                   *)
(*   dict   items, a sequence of <<key, value>> pairs of tag strings       *)
(*   none   None                                                           *)

PyVal(k, n, d, s, items) == [k |-> k, n |-> n, d |-> d, s |-> s, items |-> items]
PyFloat(n, d) == PyVal("float", n, d, <<>>, <<>>)
PyInt(n) == PyVal("int", n, 0, <<>>, <<>>)
PyBool(b) == PyVal("bool", IF b THEN 1 ELSE 0, 0, <<>>, <<>>)
PyStr(s) == PyVal("str", 0, 0, s, <<>>)
PyDict(items) == PyVal("dict", 0, 0, <<>>, items)
PyNone == PyVal("none", 0, 0, <<>>, <<>>)

\* outcome of an operation: a value, or the exception raised.  A pydantic
\* ValidationError carries the set of <<field, kind>> errors it collected.
Ok(v) == [ok |-> TRUE, val |-> v, exc |-> "", errs |-> {}]
ValidationError(errs) == [ok |-> FALSE, val |-> PyNone, exc |-> "ValidationError", errs |-> errs]
Raise(exc) == [ok |-> FALSE, val |-> PyNone, exc |-> exc, errs |-> {}]

----------------------------------------------------------------------------
(* Characters and numeric literals *)

IsDigit(c) == c \in 48..57
Dot == <<46>>

RECURSIVE Pow10(_)
Pow10(d) == IF d = 0 THEN 1 ELSE 10 * Pow10(d - 1)

RECURSIVE DigitsToInt(_)
DigitsToInt(ds) ==
    IF ds = <<>> THEN 0
    ELSE 10 * DigitsToInt(SubSeq(ds, 1, Len(ds) - 1)) + (ds[Len(ds)] - 48)

RECURSIVE IntToDigits(_)
IntToDigits(n) ==
    IF n < 10 THEN <<48 + n>>
    ELSE Append(IntToDigits(n \div 10), 48 + (n % 10))

\* n printed with exactly d digits (leading zeros)
RECURSIVE PadDigits(_, _)
PadDigits(n, d) ==
    IF d = 0 THEN <<>>
    ELSE Append(PadDigits(n \div 10, d - 1), 48 + (n % 10))

RECURSIVE Normalise(_, _)
Normalise(n, d) ==
    IF d > 0 /\ n % 10 = 0 THEN Normalise(n \div 10, d - 1) ELSE PyFloat(n, d)

\* float(s) for a str: digits with at most one decimal point and at least
\* one digit ("1", "1.", ".1", "01.10"); every other string over the
\* characters the model draws raises ValueError.  Signs, exponents,
\* underscores, blanks, "inf" and "nan" are outside the drawn alphabet.
IsFloatLiteral(s) ==
    /\ \A i \in 1..Len(s) : IsDigit(s[i]) \/ s[i] = 46
    /\ Cardinality({i \in 1..Len(s) : s[i] = 46}) <= 1
    /\ \E i \in 1..Len(s) : IsDigit(s[i])

ParseFloat(s) ==
    LET dots == {i \in 1..Len(s) : s[i] = 46}
        d == IF dots = {} THEN 0 ELSE Len(s) - (CHOOSE i \in dots : TRUE)
    IN Normalise(DigitsToInt(SelectSeq(s, IsDigit)), d)

\* str(x) / repr(x) for a float x = n / 10^d: "20.0", "0.5", "1.25"
FormatFloat(n, d) ==
    IntToDigits(n \div Pow10(d)) \o Dot \o
        (IF d = 0 THEN <<48>> ELSE PadDigits(n % Pow10(d), d))

\* str.lower() on ASCII
Lower(s) == [i \in 1..Len(s) |-> IF s[i] \in 65..90 THEN s[i] + 32 ELSE s[i]]

StrTrue == <<84, 114, 117, 101>>
StrFalse == <<70, 97, 108, 115, 101>>

\* the str members of pydantic's BOOL_TRUE / BOOL_FALSE
BOOL_TRUE == {<<49>>, <<111, 110>>, <<116>>, <<116, 114, 117, 101>>, <<121>>, <<121, 101, 115>>}
BOOL_FALSE == {<<48>>, <<111, 102, 102>>, <<102>>, <<102, 97, 108, 115, 101>>, <<110>>, <<110, 111>>}

----------------------------------------------------------------------------
(* The type tag registry (core.models.DataTypes): a str-valued enumeration. *)
(* A tag held by a record is either the enumeration member itself or a      *)
(* plain str; the two compare equal (==) when their text is equal, and are  *)
(* distinguished only by identity (is).                                     *)

DataTypes_TEXT == <<84, 101, 120, 116>>
DataTypes_NUMBER == <<78, 117, 109, 98, 101, 114>>
DataTypes_BOOLEAN == <<66, 111, 111, 108, 101, 97, 110>>
DataTypes_RELATIONSHIP == <<82, 101, 108, 97, 116, 105, 111, 110, 115, 104, 105, 112>>
DataTypes_STRUCTUREDVALUE == <<83, 116, 114, 117, 99, 116, 117, 114, 101, 100, 86, 97, 108, 117, 101>>

DataTypes == {DataTypes_TEXT, DataTypes_NUMBER, DataTypes_BOOLEAN, DataTypes_RELATIONSHIP, DataTypes_STRUCTUREDVALUE}

Member(t) == [enum |-> TRUE, tag |-> t]
PlainStr(t) == [enum |-> FALSE, tag |-> t]

\* a == b between a tag and a member of the enumeration
TagEq(a, b) == a.tag = b.tag
\* a is b
TagIs(a, b) == a = b

----------------------------------------------------------------------------
(* Constrained str fields: max_length = 256, min_length = 1 and a regex.    *)
(* pydantic checks the length before the regex and reports the first        *)
(* failing check of the field.                                              *)

\* "^((?![?&#/])[\x00-\x7F])*$": every character is ASCII and none of ? & # /
FiwareRegex(s) == \A i \in 1..Len(s) : s[i] \in 0..127 /\ s[i] \notin {63, 38, 35, 47}

\* "^((?![?&#/*])[\x00-\x7F])*$": as above, and no *
FiwareTypeRegex(s) == \A i \in 1..Len(s) : s[i] \in 0..127 /\ s[i] \notin {63, 38, 35, 47, 42}

ReservedNames == {<<105, 100>>, <<116, 121, 112, 101>>,
                  <<103, 101, 111, 58, 100, 105, 115, 116, 97, 110, 99, 101>>, <<42>>}

IsPrefix(w, s) == Len(w) <= Len(s) /\ SubSeq(s, 1, Len(w)) = w

\* "(^((?![?&#/])[\x00-\x7F])*$)(?!(id|type|geo:distance|\*))": the group
\* matches a prefix of allowed characters up to a position where $ holds
\* (the end of the string, or just before a final newline); the negative
\* lookahead is then evaluated on what follows that position.
NameRegex(s) ==
    \E p \in 0..Len(s) :
        /\ p = Len(s) \/ (p = Len(s) - 1 /\ s[Len(s)] = 10)
        /\ FiwareRegex(SubSeq(s, 1, p))
        /\ ~ \E w \in ReservedNames : IsPrefix(w, SubSeq(s, p + 1, Len(s)))

ConstrainedStr_OffByOne(field, s, matches) ==
    IF Len(s) < MinLength \/ Len(s) >= MaxLength THEN {<<field, "LengthViolation">>}
    ELSE IF ~matches THEN {<<field, "CharsetViolation">>}
    ELSE {}

ConstrainedStr(field, s, matches) ==
    IF Len(s) < MinLength \/ Len(s) > MaxLength THEN {<<field, "LengthViolation">>}
    ELSE IF ~matches THEN {<<field, "CharsetViolation">>}
    ELSE {}

----------------------------------------------------------------------------
(* ContextAttribute *)

\* A record of the attribute family.  cls is "dict" for a raw payload
\* (keys = the keys it has) and the class name for a validated object.
Record(cls, keys, type, value, metadata, name) ==
    [cls |-> cls, keys |-> keys, type |-> type, value |-> value,
     metadata |-> metadata, name |-> name]

EmptyDict == PyDict(<<>>)

\* value: Union[float, int, bool, str] -- pydantic tries the members in
\* order and keeps the first that accepts the input.  Every str that int()
\* accepts is accepted by float() before it.
UnionCoerce(v) ==
    CASE v.k = "float" -> Ok(v)
      [] v.k = "int" -> Ok(PyFloat(v.n, 0))
      [] v.k = "bool" -> Ok(PyFloat(v.n, 0))
      [] v.k = "str" ->
            IF IsFloatLiteral(v.s) THEN Ok(ParseFloat(v.s))
            ELSE IF Lower(v.s) \in BOOL_TRUE THEN Ok(PyBool(TRUE))
            ELSE IF Lower(v.s) \in BOOL_FALSE THEN Ok(PyBool(FALSE))
            ELSE Ok(v)
      [] OTHER -> ValidationError({<<"value", "MalformedAttributePayload">>})

\* bool(v)
Truthy(v) ==
    CASE v.k = "str" -> v.s # <<>>
      [] v.k = "dict" -> v.items # <<>>
      [] v.k = "none" -> FALSE
      [] OTHER -> v.n # 0

\* float(v)
ToFloat(v) ==
    CASE v.k = "float" -> Ok(v)
      [] v.k \in {"int", "bool"} -> Ok(PyFloat(v.n, 0))
      [] v.k = "str" /\ IsFloatLiteral(v.s) -> Ok(ParseFloat(v.s))
      [] OTHER -> ValidationError({<<"value", "TypeCoercionError">>})

\* str(v)
ToStr(v) ==
    CASE v.k = "float" -> FormatFloat(v.n, v.d)
      [] v.k = "int" -> IntToDigits(v.n)
      [] v.k = "bool" -> IF v.n = 1 THEN StrTrue ELSE StrFalse
      [] OTHER -> v.s

\* repr(v): as str(v), but a str is quoted
ToRepr(v) == IF v.k = "str" THEN <<39>> \o v.s \o <<39>> ELSE ToStr(v)

validate_value_type_repr(v, type_) ==
    IF TagEq(type_, Member(DataTypes_BOOLEAN)) THEN Ok(PyBool(Truthy(v)))
    ELSE IF TagEq(type_, Member(DataTypes_NUMBER)) THEN ToFloat(v)
    ELSE Ok(PyStr(ToRepr(v)))

validate_value_type(v, type_) ==
    IF TagEq(type_, Member(DataTypes_BOOLEAN)) THEN Ok(PyBool(Truthy(v)))
    ELSE IF TagEq(type_, Member(DataTypes_NUMBER)) THEN ToFloat(v)
    ELSE Ok(PyStr(ToStr(v)))

validate_metadata_type(v) ==
    IF v.k = "dict" THEN
        IF v.items = <<>> THEN Ok(v)
        ELSE Ok(PyNone)     \* falls off the end of the function
    ELSE \* ContextMetadata(**v) with v no mapping: TypeError
        ValidationError({<<"metadata", "MalformedAttributePayload">>})

\* The str validator of a constrained str keeps a plain str.  A str that is
\* a member of an enum.Enum it replaces by the member's value; DataTypes is
\* built on aenum's Enum, and whether its members are instances of enum.Enum
\* depends on the installed aenum: in one build the member is kept as it
\* is, in the other it is replaced by a plain str.
Builds == {"keeps", "unwraps"}

str_validator(t) == IF t.enum /\ build = "unwraps" THEN PlainStr(t.tag) ELSE t

\* field type: the annotation is a str subclass that carries max_length,
\* min_length and regex, which pydantic turns into a constrained str: any
\* str that passes the constraints is accepted, registered or not.  The
\* default is not validated: it stays the member DataTypes.TEXT.
FieldOutcome(errs, v) == IF errs = {} THEN Ok(v) ELSE ValidationError(errs)

TypeField_NumberDefault(p) ==
    IF "type" \notin p.keys THEN Ok(Member(DataTypes_NUMBER))
    ELSE FieldOutcome(ConstrainedStr("type", p.type.tag, FiwareRegex(p.type.tag)),
                      str_validator(p.type))

TypeField(p) ==
    IF "type" \notin p.keys THEN Ok(Member(DataTypes_TEXT))
    ELSE FieldOutcome(ConstrainedStr("type", p.type.tag, FiwareRegex(p.type.tag)),
                      str_validator(p.type))

\* field value: required; the Union, then the validator, which reads
\* values['type'] -- a KeyError when the type field failed.
ValueValidator(u, t) ==
    IF ~u.ok THEN u
    ELSE IF ~t.ok THEN Raise("KeyError")
    ELSE validate_value_type(u.val, t.val)

ValueField(p, t) ==
    IF "value" \notin p.keys THEN ValidationError({<<"value", "MalformedAttributePayload">>})
    ELSE ValueValidator(UnionCoerce(p.value), t)

\* field metadata: Optional[Union[Dict, ContextMetadata]], default {}
MetadataField(p) ==
    IF "metadata" \notin p.keys THEN Ok(EmptyDict)
    ELSE validate_metadata_type(p.metadata)

AttributeKeys == {"type", "value", "metadata"}

\* ContextAttribute(**p) / ContextAttribute.parse_obj(p)
\* the fields are validated in the order of their declaration; the errors
\* of all fields are collected into one ValidationError
AttributeModel(t, v, m) ==
    IF v.exc = "KeyError" THEN Raise("KeyError")
    ELSE IF t.errs \cup v.errs \cup m.errs # {}
         THEN ValidationError(t.errs \cup v.errs \cup m.errs)
    ELSE Ok(Record("ContextAttribute", AttributeKeys, t.val, v.val, m.val, <<>>))

ContextAttribute(p) ==
    AttributeModel(TypeField(p), ValueField(p, TypeField(p)), MetadataField(p))

\* NamedContextAttribute(**p): the inherited fields, then name
NamedAttributeModel(a, n, name) ==
    IF a.exc = "KeyError" THEN a
    ELSE IF a.errs \cup n # {} THEN ValidationError(a.errs \cup n)
    ELSE Ok(Record("NamedContextAttribute", AttributeKeys \cup {"name"},
                   a.val.type, a.val.value, a.val.metadata, name))

NamedContextAttribute(p) ==
    NamedAttributeModel(ContextAttribute(p),
                        IF "name" \notin p.keys THEN {<<"name", "MalformedAttributePayload">>}
                        ELSE ConstrainedStr("name", p.name, NameRegex(p.name)),
                        p.name)

\* NamedContextMetadata(**p) for p with a name and possibly a type (value
\* is left at its default None)
NamedContextMetadata(p) ==
    FieldOutcome(
        (IF "type" \notin p.keys THEN {}
         ELSE ConstrainedStr("type", p.type.tag, FiwareTypeRegex(p.type.tag)))
          \cup (IF "name" \notin p.keys THEN {<<"name", "MalformedAttributePayload">>}
                ELSE ConstrainedStr("name", p.name, FiwareTypeRegex(p.name))),
        Record("NamedContextMetadata", {"type", "value", "name"},
               IF "type" \in p.keys THEN str_validator(p.type) ELSE PlainStr(<<>>),
               PyNone, EmptyDict, p.name))

\* a == b between two Python values: numbers (float, int, bool) compare by
\* their numeric value, every other kind only with its own kind
PyEq(a, b) ==
    IF a.k \in {"float", "int", "bool"} /\ b.k \in {"float", "int", "bool"}
    THEN a.n * Pow10(b.d) = b.n * Pow10(a.d)
    ELSE a = b

\* BaseModel.__eq__: a.dict() == b.dict()
Eq(a, b) ==
    /\ a.keys = b.keys
    /\ TagEq(a.type, b.type)
    /\ PyEq(a.value, b.value)
    /\ PyEq(a.metadata, b.metadata)
    /\ a.name = b.name

\* a == b for two objects under construction: a constructor that raises
\* ends the comparison
Compare(a, b) ==
    IF ~a.ok THEN a ELSE IF ~b.ok THEN b ELSE Ok(PyBool(Eq(a.val, b.val)))

----------------------------------------------------------------------------
(* ContextEntity *)

\* The entity object: the fields id and type, and the extra fields (the
\* dynamic attributes) in the order of the object's __dict__.  Each extra
\* is <<name, obj>> with obj a Record: a ContextAttribute object, a raw
\* dict, or (cls "scalar") any other value.
Entity(id, type, attrs) == [exists |-> TRUE, id |-> id, type |-> type, attrs |-> attrs]
NoEntity == [exists |-> FALSE, id |-> <<>>, type |-> <<>>, attrs |-> <<>>]

Item(name, obj) == [name |-> name, obj |-> obj]

\* the keys of a dict (a sequence of items)
Keys(view) == {view[i].name : i \in 1..Len(view)}

\* the names of the entity's attributes
AttributeNames(e) == {e.attrs[i].name : i \in 1..Len(e.attrs)}

\* the keys ContextEntity.__fields__ : "id" and "type"
EntityFields == {<<105, 100>>, <<116, 121, 112, 101>>}

\* _validate_properties: every key that is no field of the entity is parsed
\* as a ContextAttribute; the key itself is not looked at.  The first item
\* that fails raises.
Comprehend_Skip(name, a, rest) ==
    IF ~a.ok THEN rest
    ELSE IF ~rest.ok THEN rest
    ELSE Ok(<<Item(name, a.val)>> \o rest.val)

\* one step of a comprehension: the item built as a under name, then the
\* remaining items; the first item that raises ends the comprehension
Comprehend(name, a, rest) ==
    IF ~a.ok THEN a
    ELSE IF ~rest.ok THEN rest
    ELSE Ok(<<Item(name, a.val)>> \o rest.val)

ParseProperty(it) ==
    IF it.name \in EntityFields THEN Ok(it.obj)
    ELSE IF it.obj.cls = "scalar"
         THEN ValidationError({<<"__root__", "MalformedAttributePayload">>})
    ELSE ContextAttribute(it.obj)

RECURSIVE validate_properties(_)
validate_properties(data) ==
    IF data = <<>> THEN Ok(<<>>)
    ELSE Comprehend(Head(data).name, ParseProperty(Head(data)), validate_properties(Tail(data)))

\* ContextEntity(id=id, type=type, **data)
\* __init__: the extras are parsed first; then the model validates the
\* fields id and type
EntityModel(attrs, errs, id, type) ==
    IF ~attrs.ok THEN attrs
    ELSE FieldOutcome(errs, Entity(id, type, attrs.val))

ContextEntity(id, type, data) ==
    EntityModel(validate_properties(data),
                ConstrainedStr("id", id, FiwareRegex(id))
                  \cup ConstrainedStr("type", type, FiwareRegex(type)),
                id, type)

\* self.dict(): each extra that is a model object becomes a dict
AsDict(obj) == IF obj.cls = "ContextAttribute" THEN [obj EXCEPT !.cls = "dict"] ELSE obj

\* value.get('type') is DataTypes.RELATIONSHIP
IsRelationship(obj) ==
    "type" \in obj.keys /\ TagIs(obj.type, Member(DataTypes_RELATIONSHIP))

\* the comprehension of get_properties (rel = FALSE) and get_relationships
\* (rel = TRUE) over self.dict().items(): the first item that raises ends it
\* one item (key, value) of the comprehension, rest being the outcome of
\* the items after it
ViewItem(key, value, format, rel, rest) ==
    IF value.cls = "scalar" THEN Raise("AttributeError")
    ELSE IF IsRelationship(value) # rel THEN rest
    ELSE Comprehend(key,
                    IF format = "dict" THEN ContextAttribute(value)
                    ELSE NamedContextAttribute(
                           [value EXCEPT !.keys = @ \cup {"name"}, !.name = key]),
                    rest)

RECURSIVE View(_, _, _)
View(items, format, rel) ==
    IF items = <<>> THEN Ok(<<>>)
    ELSE ViewItem(Head(items).name, AsDict(Head(items).obj), format, rel,
                  View(Tail(items), format, rel))

get_properties(e, format) == View(e.attrs, format, FALSE)

get_relationships(e, format) == View(e.attrs, format, TRUE)

\* serialisation, self.dict(): the flat object {id, type, name: {...}, ...}
Serialize(e) == [id |-> e.id, type |-> e.type,
                 attrs |-> [i \in 1..Len(e.attrs) |-> Item(e.attrs[i].name, AsDict(e.attrs[i].obj))]]

----------------------------------------------------------------------------
(* Mutation of a ContextEntity *)

\* position of the extra called name in attrs, 0 when there is none
IndexOf(attrs, name) ==
    IF \E i \in 1..Len(attrs) : attrs[i].name = name
    THEN CHOOSE i \in 1..Len(attrs) : attrs[i].name = name
    ELSE 0

Put_Merge(attrs, name, obj) ==
    IF IndexOf(attrs, name) = 0 THEN Append(attrs, Item(name, obj))
    ELSE [attrs EXCEPT ![IndexOf(attrs, name)] =
             Item(name, [obj EXCEPT !.metadata = attrs[IndexOf(attrs, name)].obj.metadata])]

\* __dict__[name] = obj: an existing key keeps its place, a new one is last
Put(attrs, name, obj) ==
    IF IndexOf(attrs, name) = 0 THEN Append(attrs, Item(name, obj))
    ELSE [attrs EXCEPT ![IndexOf(attrs, name)] = Item(name, obj)]

Scalar(v) == Record("scalar", {}, PlainStr(<<>>), v, PyNone, <<>>)

\* the outcome of a mutating call and the entity it leaves behind
Effect(out, e) == [out |-> out, ent |-> e]

\* entity.__setattr__(name, obj) with extra = 'allow' and
\* validate_assignment = True: a field (id, type) is validated by its
\* field definition, any other name is stored as given
AssignField(e, field, str, errs) ==
    IF errs # {} THEN Effect(ValidationError(errs), e)
    ELSE Effect(Ok(PyNone), IF field = "id" THEN [e EXCEPT !.id = str]
                            ELSE [e EXCEPT !.type = str])

\* the str validator: a str is kept, a number is converted with str()
ValidateField(e, field, obj) ==
    IF obj.cls = "scalar" /\ obj.value.k \in {"str", "int", "float", "bool"}
    THEN AssignField(e, field, ToStr(obj.value),
                     ConstrainedStr(field, ToStr(obj.value), FiwareRegex(ToStr(obj.value))))
    ELSE Effect(ValidationError({<<field, "StrError">>}), e)

setattr_Unchecked(e, name, obj) ==
    Effect(Ok(PyNone), [e EXCEPT !.attrs = Put(@, name, obj)])

setattr_(e, name, obj) ==
    IF name \in EntityFields
    THEN ValidateField(e, IF name = <<105, 100>> THEN "id" ELSE "type", obj)
    ELSE Effect(Ok(PyNone), [e EXCEPT !.attrs = Put(@, name, obj)])

\* for key, attr in attrs.items(): self.__setattr__(name=key, value=attr)
RECURSIVE SetAll(_, _)
RECURSIVE SetRest(_, _)
SetAll(e, attrs) ==
    IF attrs = <<>> THEN Effect(Ok(PyNone), e)
    ELSE SetRest(setattr_(e, Head(attrs).name, Head(attrs).obj), Tail(attrs))

\* r is the effect of the assignment before attrs; one that raises ends
\* the loop
SetRest(r, attrs) == IF ~r.out.ok THEN r ELSE SetAll(r.ent, attrs)

\* add_properties(attrs): a list is first rebuilt as a dict with
\* ContextAttribute(**attr) for each NamedContextAttribute attr, which is
\* no mapping: TypeError
add_properties(e, attrs, isList) ==
    IF isList THEN
        IF attrs = <<>> THEN Effect(Ok(PyNone), e) ELSE Effect(Raise("TypeError"), e)
    ELSE SetAll(e, attrs)

\* entity.<name>.<field> = new.<field>: ContextAttribute does not validate
\* assignments, the field is overwritten with the raw value
SetFieldAt(e, i, field, new) ==
    IF i = 0 THEN Effect(Raise("AttributeError"), e)
    ELSE IF e.attrs[i].obj.cls # "ContextAttribute" THEN Effect(Raise("AttributeError"), e)
    ELSE Effect(Ok(PyNone),
                [e EXCEPT !.attrs[i].obj =
                    IF field = "value" THEN [@ EXCEPT !.value = new.value]
                    ELSE IF field = "type" THEN [@ EXCEPT !.type = new.type]
                    ELSE [@ EXCEPT !.metadata = new.metadata]])

set_field(e, name, field, new) == SetFieldAt(e, IndexOf(e.attrs, name), field, new)

\* The names of a view whose object in the view is the very object the
\* entity holds.  There is none: both views iterate self.dict(), which turns
\* every model object into a new dict and copies every raw dict, and each
\* element of a view is a new ContextAttribute / NamedContextAttribute built
\* from such a dict.
ViewAliases_Stored(view) == Keys(view)

ViewAliases(view) == {}

\* view[name].value = v on a returned view: the assignment reaches the
\* entity's attribute only where the view's object is the entity's own
WriteThrough(e, aliases, name, v) ==
    IF name \in aliases
    THEN [e EXCEPT !.attrs[IndexOf(e.attrs, name)].obj.value = v]
    ELSE e

\* view[name].value = v, view being what the query returned or raised
MutatedView(e, view, name, v) ==
    IF ~view.ok THEN Effect(view, e)
    ELSE IF name \notin Keys(view.val) THEN Effect(Raise("KeyError"), e)
    ELSE Effect(Ok(PyNone), WriteThrough(e, ViewAliases(view.val), name, v))

\* view = e.get_properties(format) (rel = FALSE) or e.get_relationships(format)
\* (rel = TRUE), then view[name].value = v
mutate_view(e, format, rel, name, v) == MutatedView(e, View(e.attrs, format, rel), name, v)

----------------------------------------------------------------------------
(* create_context_entity_model *)

Temperature == <<116, 101, 109, 112, 101, 114, 97, 116, 117, 114, 101>>

\* properties: one required field (ContextAttribute, ...) for every key of
\* data that is no field of ContextEntity, in the order of the keys
properties(data) == SelectSeq(data, LAMBDA key : key \notin EntityFields)

\* create_context_entity_model(name, data), data being given by its keys.
\* validator('temperature')(username_alphanumeric) registers the function:
\* registering it again (again: the factory was called before in this
\* process) is a ConfigError (duplicate validator function).  create_model
\* then raises a ConfigError when the validator's field, temperature, is no
\* field of the new model.  Otherwise the model is returned: here, the
\* sequence of its required fields.
create_context_entity_model(data, again) ==
    IF again THEN Raise("ConfigError")
    ELSE IF \A i \in 1..Len(properties(data)) : properties(data)[i] # Temperature
         THEN Raise("ConfigError")
    ELSE Ok(properties(data))

\* the __dict__ of a generated model's object: the declared fields come
\* first, in the order of their declaration, the extras after them
RECURSIVE FieldsFirst(_, _)
FieldsFirst(fields, attrs) ==
    IF fields = <<>> THEN attrs
    ELSE SelectSeq(attrs, LAMBDA it : it.name = Head(fields))
            \o FieldsFirst(Tail(fields), SelectSeq(attrs, LAMBDA it : it.name # Head(fields)))

\* a required field that is no key of the data is reported as missing
RequiredFields(fields, attrs) ==
    IF \E i \in 1..Len(fields) : fields[i] \notin Keys(attrs)
    THEN {<<"__fields__", "MissingField">>} ELSE {}

\* EntityModel(id=id, type=type, **data) for a generated model with the
\* required fields fields: the inherited __init__ parses the extras, then
\* the model validates id, type and the required fields (each value is a
\* ContextAttribute object by then; username_alphanumeric returns it as it is)
GeneratedModel(attrs, errs, id, type, fields) ==
    IF ~attrs.ok THEN attrs
    ELSE FieldOutcome(errs \cup RequiredFields(fields, attrs.val),
                      Entity(id, type, FieldsFirst(fields, attrs.val)))

GeneratedContextEntity_NoIdCheck(fields, id, type, data) ==
    GeneratedModel(validate_properties(data), ConstrainedStr("type", type, FiwareRegex(type)),
                   id, type, fields)

GeneratedContextEntity(fields, id, type, data) ==
    GeneratedModel(validate_properties(data),
                   ConstrainedStr("id", id, FiwareRegex(id))
                     \cup ConstrainedStr("type", type, FiwareRegex(type)),
                   id, type, fields)

\* create_context_entity_model(data=sample)(id=id, type=type, **data)
Generate(model, id, type, data) ==
    IF ~model.ok THEN model ELSE GeneratedContextEntity(model.val, id, type, data)

----------------------------------------------------------------------------
(* Notification *)

\* "http://"
HttpScheme == <<104, 116, 116, 112, 58, 47, 47>>

\* url: AnyHttpUrl.  Over the drawn urls: the scheme http:// and a host
AnyHttpUrl(url) == IsPrefix(HttpScheme, url) /\ Len(url) > Len(HttpScheme)

\* a keyword argument of Notification(...): not given, None, or {"url": url}
Transport(k, url) == [k |-> k, url |-> url]
NotGiven == Transport("absent", <<>>)
NoTransport == Transport("none", <<>>)

\* fields http: Optional[Http] and httpCustom: Optional[HttpCustom], up to
\* the validators of the class: None where the argument is not given or
\* None, else the object parsed from the dict, whose url must be valid
HttpField(field, v) ==
    IF v.k \in {"absent", "none"} THEN Ok(NoTransport)
    ELSE IF AnyHttpUrl(v.url) THEN Ok(v)
    ELSE ValidationError({<<field, "UrlError">>})

\* validate_http(cls, v, values, field), h being the outcome of the field
\* http: a field that failed is no key of values
validate_http(v, h) ==
    IF v.k = "none" THEN Ok(v)
    ELSE IF ~h.ok THEN Raise("KeyError")
    ELSE IF h.val.k = "none" THEN Ok(v)
    ELSE ValidationError({<<"httpCustom", "AssertionError">>})

\* field httpCustom: the validator runs on a given value that parsed (None
\* included), not on the default of an argument that is not given
HttpCustomValidated(u, h) == IF ~u.ok THEN u ELSE validate_http(u.val, h)

HttpCustomField(v, h) ==
    IF v.k = "absent" THEN Ok(NoTransport)
    ELSE HttpCustomValidated(HttpField("httpCustom", v), h)

\* Notification(http=..., httpCustom=...): http is declared, and validated,
\* before httpCustom
NotificationModel(h, c) ==
    IF c.exc = "KeyError" THEN c
    ELSE IF h.errs \cup c.errs # {} THEN ValidationError(h.errs \cup c.errs)
    ELSE Ok([http |-> h.val, httpCustom |-> c.val])

Notification(http, httpCustom) ==
    NotificationModel(HttpField("http", http),
                      HttpCustomField(httpCustom, HttpField("http", http)))

----------------------------------------------------------------------------
(* Inputs *)

Strings(chars, n) == UNION {[1..k -> chars] : k \in 0..n}

\* characters of drawn attribute values: 0 1 . t f a
ValueChars == {48, 49, 46, 116, 102, 97}

RawValues ==
    {PyStr(s) : s \in Strings(ValueChars, MaxValueLen)}
        \cup {PyInt(0), PyInt(1), PyInt(20), PyFloat(5, 1), PyFloat(20, 0),
              PyBool(TRUE), PyBool(FALSE)}

\* supplied type tags: plain strs (the registry's values, an unregistered
\* "Bogus", the empty string, "a?b", "a*") and members of the enumeration
RawTags ==
    {PlainStr(t) : t \in {DataTypes_TEXT, DataTypes_NUMBER, DataTypes_BOOLEAN, DataTypes_RELATIONSHIP,
                          <<66, 111, 103, 117, 115>>, <<>>, <<97, 63, 98>>, <<97, 42>>}}
        \cup {Member(DataTypes_RELATIONSHIP), Member(DataTypes_NUMBER)}

\* {"type": "Text", "value": "m"}
SomeMetadata == PyDict(<< <<"type", DataTypes_TEXT>>, <<"value", <<109>>>> >>)
\* {"type": "a?b"}: a type that ContextMetadata.type does not admit
BadMetadata == PyDict(<< <<"type", <<97, 63, 98>>>> >>)
RawMetadata == {EmptyDict, SomeMetadata, BadMetadata}

\* a raw attribute payload (a dict) holding the keys ks
Payload(ks, type, value, metadata) ==
    Record("dict", ks,
           IF "type" \in ks THEN type ELSE PlainStr(<<>>),
           IF "value" \in ks THEN value ELSE PyNone,
           IF "metadata" \in ks THEN metadata ELSE PyNone,
           <<>>)

AttributePayloads ==
    {Payload(AttributeKeys, t, v, m) : t \in RawTags, v \in RawValues, m \in RawMetadata}
        \cup {Payload({"value", "metadata"}, PlainStr(<<>>), v, m) : v \in RawValues, m \in RawMetadata}
        \cup {Payload({"type", "metadata"}, t, PyNone, m) : t \in RawTags, m \in RawMetadata}
        \cup {Payload({"type", "value"}, t, v, PyNone) : t \in RawTags, v \in RawValues}
        \cup {Payload({"value"}, PlainStr(<<>>), v, PyNone) : v \in RawValues}

\* a few payloads for the operations that take other arguments as well
SamplePayloads ==
    { Payload({"type", "value"}, PlainStr(DataTypes_NUMBER), PyInt(20), PyNone),
      Payload({"type", "value"}, PlainStr(DataTypes_NUMBER), PyStr(<<97>>), PyNone),
      Payload({"type", "value"}, PlainStr(DataTypes_RELATIONSHIP), PyStr(<<97>>), PyNone),
      Payload({"type", "value"}, Member(DataTypes_RELATIONSHIP), PyStr(<<97>>), PyNone),
      Payload(AttributeKeys, PlainStr(DataTypes_TEXT), PyStr(<<49>>), SomeMetadata),
      Payload(AttributeKeys, PlainStr(DataTypes_BOOLEAN), PyStr(<<48>>), EmptyDict),
      Payload({"value"}, PlainStr(<<>>), PyBool(TRUE), PyNone),
      Payload({"type"}, PlainStr(DataTypes_NUMBER), PyNone, PyNone),
      Payload({"type", "value"}, PlainStr(<<97, 63, 98>>), PyInt(1), PyNone) }

\* characters of drawn names: a, blank, tab, ? & / # *, e-acute
NameChars == {97, 32, 9, 63, 38, 47, 35, 42, 233}

Repeat(c, n) == [i \in 1..n |-> c]

NameStrings ==
    Strings(NameChars, MaxNameLen) \cup ReservedNames
        \cup {<<105, 100, 120>>, <<116, 121, 112, 101, 50>>}
        \cup {Repeat(97, n) : n \in {MaxLength - 1, MaxLength, MaxLength + 1}}

E1 == <<69, 49>>
Room == <<82, 111, 111, 109>>

\* one invocation: the operation and its arguments
Call(op, id, type, data, p, arg) ==
    [op |-> op, id |-> id, type |-> type, data |-> data, p |-> p, arg |-> arg]

NoPayload == Payload({}, PlainStr(<<>>), PyNone, PyNone)

Named(p, name) == [p EXCEPT !.keys = @ \cup {"name"}, !.name = name]

\* the keyword arguments **data of a constructor call: one or two attributes
ConstructData ==
    {<<Item(k, p)>> : k \in NameStrings \ EntityFields, p \in SamplePayloads}
        \cup {<<Item(k, p), Item(<<98>>, q)>> :
                k \in {<<97>>, <<42>>, <<97, 63>>}, p \in SamplePayloads, q \in SamplePayloads}

\* {"type": "Number", "value": "n"}
OtherMetadata == PyDict(<< <<"type", DataTypes_NUMBER>>, <<"value", <<110>>>> >>)

\* payloads of the attributes that are compared with ==
ComparedPayloads ==
    { Payload({"type", "value"}, PlainStr(DataTypes_NUMBER), PyInt(20), PyNone),
      Payload({"type", "value"}, PlainStr(DataTypes_NUMBER), PyFloat(20, 0), PyNone),
      Payload({"type", "value"}, PlainStr(DataTypes_NUMBER), PyInt(1), PyNone),
      Payload({"type", "value"}, PlainStr(DataTypes_TEXT), PyStr(<<97>>), PyNone),
      Payload({"type", "value"}, Member(DataTypes_TEXT), PyStr(<<97>>), PyNone),
      Payload({"value"}, PlainStr(<<>>), PyStr(<<97>>), PyNone),
      Payload({"type", "value"}, PlainStr(DataTypes_TEXT), PyStr(<<97, 97>>), PyNone),
      Payload(AttributeKeys, PlainStr(DataTypes_TEXT), PyStr(<<97>>), EmptyDict),
      Payload(AttributeKeys, PlainStr(DataTypes_TEXT), PyStr(<<97>>), SomeMetadata),
      Payload(AttributeKeys, PlainStr(DataTypes_TEXT), PyStr(<<97>>), OtherMetadata),
      Payload({"type", "value"}, PlainStr(DataTypes_BOOLEAN), PyInt(1), PyNone),
      Payload({"type", "value"}, PlainStr(DataTypes_NUMBER), PyStr(<<97>>), PyNone) }

\* a == b for two ContextAttribute or two NamedContextAttribute
ComparisonCalls ==
    {Call("eq", <<>>, <<>>, <<Item(<<>>, p), Item(<<>>, q)>>, NoPayload, "ContextAttribute") :
        p \in ComparedPayloads, q \in ComparedPayloads}
        \cup {Call("eq", <<>>, <<>>, <<Item(n, Named(p, n)), Item(m, Named(q, m))>>, NoPayload,
                   "NamedContextAttribute") :
                p \in ComparedPayloads, q \in ComparedPayloads,
                n \in {<<97>>}, m \in {<<97>>, <<98>>}}

\* the keys of the sample handed to create_context_entity_model
SampleKeys ==
    { <<>>, <<Temperature>>, <<<<97>>>>, <<Temperature, <<97>>>>, <<<<97>>, Temperature>>,
      <<<<105, 100>>, <<116, 121, 112, 101>>, Temperature>> }

\* payloads of the attributes handed to a generated model
GeneratedPayloads ==
    { Payload({"type", "value"}, PlainStr(DataTypes_NUMBER), PyInt(20), PyNone),
      Payload({"type", "value"}, PlainStr(DataTypes_NUMBER), PyStr(<<97>>), PyNone),
      Payload({"value"}, PlainStr(<<>>), PyBool(TRUE), PyNone),
      Payload({"type"}, PlainStr(DataTypes_NUMBER), PyNone, PyNone) }

\* **data handed to a generated model: no, one or two attributes
GeneratedData ==
    {<<>>} \cup {<<Item(k, p)>> : k \in {Temperature, <<97>>, <<98>>}, p \in GeneratedPayloads}
        \cup {<<Item(k[1], p), Item(k[2], q)>> :
                k \in {<<Temperature, <<97>>>>, <<<<97>>, Temperature>>, <<Temperature, <<98>>>>},
                p \in GeneratedPayloads, q \in GeneratedPayloads}

\* create_context_entity_model(data=sample)(id=id, type=Room, **data), in a
\* process that calls the factory for the first time or has called it before
FactoryCall(sample, id, type, data, when) ==
    [op |-> "create_context_entity_model", id |-> id, type |-> type, data |-> data,
     p |-> NoPayload, arg |-> when, sample |-> sample]

FactoryCalls ==
    {FactoryCall(sample, id, Room, data, when) :
        sample \in SampleKeys, id \in {E1, <<97, 63>>, <<>>}, data \in GeneratedData,
        when \in {"first", "again"}}

\* the values given for http and httpCustom: nothing, None, {"url":
\* "http://a"} and {"url": "a"}
Transports ==
    {NotGiven, NoTransport, Transport("dict", HttpScheme \o <<97>>), Transport("dict", <<97>>)}

NotificationCall(http, httpCustom) ==
    [op |-> "Notification", id |-> <<>>, type |-> <<>>, data |-> <<>>, p |-> NoPayload,
     arg |-> "", http |-> http, httpCustom |-> httpCustom]

NotificationCalls == {NotificationCall(h, c) : h \in Transports, c \in Transports}

ConstructorCalls ==
    ComparisonCalls \cup FactoryCalls \cup NotificationCalls \cup
    {Call("ContextAttribute", <<>>, <<>>, <<>>, p, "") : p \in AttributePayloads}
        \cup {Call("NamedContextAttribute", <<>>, <<>>, <<>>, Named(p, n), "") :
                p \in SamplePayloads, n \in NameStrings}
        \cup {Call("NamedContextMetadata", <<>>, <<>>, <<>>, Named(Payload(ks, t, PyNone, PyNone), n), "") :
                ks \in SUBSET {"type"}, t \in {PlainStr(DataTypes_TEXT), PlainStr(<<97, 42>>)},
                n \in NameStrings}
        \cup {Call("ContextEntity", id, Room, <<>>, NoPayload, "") : id \in NameStrings}
        \cup {Call("ContextEntity", E1, type, <<>>, NoPayload, "") : type \in NameStrings}
        \cup {Call("ContextEntity", E1, Room, data, NoPayload, "") : data \in ConstructData}

NoCall == Call("", <<>>, <<>>, <<>>, NoPayload, "")

Pending == [done |-> FALSE, out |-> Raise("")]
Done(out) == [done |-> TRUE, out |-> out]

----------------------------------------------------------------------------
(* The constructors, each applied once to drawn arguments *)

InitConstruct ==
    /\ call \in ConstructorCalls
    /\ result = Pending
    /\ entity = NoEntity
    /\ build \in Builds

NewContextAttribute ==
    /\ call.op = "ContextAttribute" /\ ~result.done
    /\ result' = Done(ContextAttribute(call.p))
    /\ UNCHANGED <<call, entity, build>>

NewNamedContextAttribute ==
    /\ call.op = "NamedContextAttribute" /\ ~result.done
    /\ result' = Done(NamedContextAttribute(call.p))
    /\ UNCHANGED <<call, entity, build>>

NewNamedContextMetadata ==
    /\ call.op = "NamedContextMetadata" /\ ~result.done
    /\ result' = Done(NamedContextMetadata(call.p))
    /\ UNCHANGED <<call, entity, build>>

\* the outcome out of a constructor call c: the entity is bound on success
Constructed(c, out) ==
    /\ call' = c
    /\ result' = Done(IF out.ok THEN Ok(PyNone) ELSE out)
    /\ entity' = IF out.ok THEN out.val ELSE entity
    /\ UNCHANGED build

NewContextEntity ==
    /\ call.op = "ContextEntity" /\ ~result.done
    /\ Constructed(call, ContextEntity(call.id, call.type, call.data))

\* a == b, a and b being built from the two payloads of the call
NewComparison ==
    /\ call.op = "eq" /\ ~result.done
    /\ result' = Done(IF call.arg = "ContextAttribute"
                      THEN Compare(ContextAttribute(call.data[1].obj),
                                   ContextAttribute(call.data[2].obj))
                      ELSE Compare(NamedContextAttribute(call.data[1].obj),
                                   NamedContextAttribute(call.data[2].obj)))
    /\ UNCHANGED <<call, entity, build>>

\* a model is generated from the sample and applied once
NewGeneratedContextEntity ==
    /\ call.op = "create_context_entity_model" /\ ~result.done
    /\ Constructed(call, Generate(create_context_entity_model(call.sample, call.arg = "again"),
                                  call.id, call.type, call.data))

NewNotification ==
    /\ call.op = "Notification" /\ ~result.done
    /\ result' = Done(Notification(call.http, call.httpCustom))
    /\ UNCHANGED <<call, entity, build>>

NextConstruct ==
    \/ NewNotification
    \/ NewGeneratedContextEntity
    \/ NewComparison
    \/ NewContextAttribute
    \/ NewNamedContextAttribute
    \/ NewNamedContextMetadata
    \/ NewContextEntity

SpecConstruct == InitConstruct /\ [][NextConstruct]_vars

----------------------------------------------------------------------------
(* Properties of the constructors (checked under SpecConstruct) *)

IsDone(op) == result.done /\ call.op = op

\* the value stored for raw value v under type tag t
Coerced(v, t) ==
    LET u == UnionCoerce(v) IN IF u.ok THEN validate_value_type(u.val, t) ELSE u

\* a character the charset rule excludes: non-ASCII, a control character,
\* whitespace, or one of & ? / #
Excluded(c) == c \notin 33..126 \/ c \in {38, 63, 47, 35}

\* a name that breaks the length rule or the charset rule, or is one of
\* the reserved names
InvalidName(k) ==
    \/ Len(k) \notin 1..256
    \/ \E i \in 1..Len(k) : Excluded(k[i])
    \/ k \in ReservedNames

\* C1: round trip.  Serialising the entity built from a well-formed flat
\* object (every attribute has a valid name, a type and a value, metadata
\* optional) gives
\* back the id, the type, and for every attribute, in order, the same name,
\* the same type tag, the coerced value, and the supplied metadata (the
\* empty mapping where none was supplied).
C1_RoundTrip ==
    (/\ IsDone("ContextEntity") /\ result.out.ok
     /\ \A i \in 1..Len(call.data) :
            /\ {"type", "value"} \subseteq call.data[i].obj.keys
            /\ ~InvalidName(call.data[i].name))
    => LET w == Serialize(entity)
       IN /\ w.id = call.id /\ w.type = call.type
          /\ Len(w.attrs) = Len(call.data)
          /\ \A i \in 1..Len(call.data) :
                LET raw == call.data[i].obj
                    got == w.attrs[i].obj
                IN /\ w.attrs[i].name = call.data[i].name
                   /\ TagEq(got.type, raw.type)
                   /\ got.value = Coerced(raw.value, raw.type).val
                   /\ got.metadata = IF "metadata" \in raw.keys THEN raw.metadata ELSE EmptyDict

\* C4: value coercion has three branches decided by the type tag.  Boolean:
\* the stored value is the truthiness of the raw value.  Number: the stored
\* value is the raw value converted to float.  Any other tag: construction
\* succeeds and the stored value is the string representation of the raw
\* value.
C4_ThreeBranches ==
    (/\ IsDone("ContextAttribute")
     /\ {"type", "value"} \subseteq call.p.keys
     /\ TypeField(call.p).ok)
    => LET raw == call.p.value
           t == call.p.type
           out == result.out
       IN IF TagEq(t, Member(DataTypes_BOOLEAN))
            THEN out.ok /\ out.val.value = PyBool(Truthy(raw))
          ELSE IF TagEq(t, Member(DataTypes_NUMBER))
            THEN out.ok => (ToFloat(raw).ok /\ out.val.value = ToFloat(raw).val)
          ELSE out.ok /\ out.val.value = PyStr(ToStr(raw))

\* C5: coercion failure.  An attribute of type Number whose raw value has
\* no numeric form is rejected with a TypeCoercionError on the value.
C5_CoercionFailure ==
    (/\ IsDone("ContextAttribute")
     /\ {"type", "value"} \subseteq call.p.keys
     /\ TagEq(call.p.type, Member(DataTypes_NUMBER))
     /\ ~ToFloat(call.p.value).ok)
    => (~result.out.ok /\ <<"value", "TypeCoercionError">> \in result.out.errs)

C7_ReservedNameRejected ==
    (IsDone("NamedContextAttribute") /\ call.p.name \in ReservedNames) => ~result.out.ok

\* C8: charset rule.  A ContextEntity whose id or type, or a
\* NamedContextAttribute / NamedContextMetadata whose name, has an allowed
\* length and contains an excluded character is rejected with a
\* CharsetViolation on that field.
CharsetRule(field, str, out) ==
    (Len(str) \in 1..256 /\ \E i \in 1..Len(str) : Excluded(str[i]))
    => (~out.ok /\ <<field, "CharsetViolation">> \in out.errs)

C8_CharsetRule ==
    /\ (IsDone("ContextEntity") /\ call.data = <<>>)
         => (CharsetRule("id", call.id, result.out) /\ CharsetRule("type", call.type, result.out))
    /\ (IsDone("NamedContextAttribute") /\ ContextAttribute(call.p).ok)
         => CharsetRule("name", call.p.name, result.out)
    /\ IsDone("NamedContextMetadata") => CharsetRule("name", call.p.name, result.out)

\* C9: length rule.  Construction fails when an entity id, an entity type,
\* an attribute name or a metadata name is empty or longer than 256
\* characters, and the failure reports a LengthViolation of that field
\* whenever the validation of the fields was reached (reached: no attribute
\* payload raised before it); a length of 1 to 256 is never a
\* LengthViolation.
LengthRule(field, str, out, reached) ==
    /\ (Len(str) = 0 \/ Len(str) > 256)
         => (~out.ok /\ (reached => <<field, "LengthViolation">> \in out.errs))
    /\ Len(str) \in 1..256 => <<field, "LengthViolation">> \notin out.errs

C10_KeysValidated ==
    (IsDone("ContextEntity") /\ \E i \in 1..Len(call.data) : InvalidName(call.data[i].name))
    => (~result.out.ok /\ ~entity.exists)

\* C11: construct is all-or-nothing.  When at least one of the raw
\* attributes does not parse as a ContextAttribute, the constructor call
\* fails and no entity is bound, whatever the other attributes are.
C11_ConstructAllOrNothing ==
    (/\ IsDone("ContextEntity")
     /\ \E i \in 1..Len(call.data) : ~ContextAttribute(call.data[i].obj).ok)
    => (~result.out.ok /\ ~entity.exists)

\* a call with a valid first and a malformed second attribute failed
C11_Witness ==
    /\ IsDone("ContextEntity") /\ Len(call.data) = 2
    /\ ContextAttribute(call.data[1].obj).ok
    /\ ~ContextAttribute(call.data[2].obj).ok
    /\ ~result.out.ok /\ ~entity.exists

\* a non-empty metadata mapping of the Metadata shape: its type, if any, has
\* 1 to 256 characters, none of them excluded and none a *
MetadataConforms(m) ==
    /\ m.k = "dict" /\ m.items # <<>>
    /\ \A i \in 1..Len(m.items) :
          m.items[i][1] = "type"
          => /\ Len(m.items[i][2]) \in 1..256
             /\ \A j \in 1..Len(m.items[i][2]) :
                   ~Excluded(m.items[i][2][j]) /\ m.items[i][2][j] # 42

\* C18: non-empty metadata is kept.  An attribute constructed with a
\* non-empty metadata mapping of the Metadata shape is built and holds that
\* metadata, type and value as supplied.
C18_MetadataKept ==
    (/\ IsDone("ContextAttribute")
     /\ {"type", "value", "metadata"} \subseteq call.p.keys
     /\ MetadataConforms(call.p.metadata)
     /\ TypeField(call.p).ok /\ ValueField(call.p, TypeField(call.p)).ok)
    => (result.out.ok /\ result.out.val.metadata = call.p.metadata)

\* C19: malformed metadata is rejected.  An attribute with a valid type and
\* value and a non-empty metadata mapping that is not of the Metadata shape
\* is not built: the constructor fails with an error on the metadata field.
C19_MalformedMetadataRejected ==
    (/\ IsDone("ContextAttribute")
     /\ {"type", "value", "metadata"} \subseteq call.p.keys
     /\ call.p.metadata.k = "dict" /\ call.p.metadata.items # <<>>
     /\ ~MetadataConforms(call.p.metadata)
     /\ TypeField(call.p).ok /\ ValueField(call.p, TypeField(call.p)).ok)
    => (~result.out.ok /\ <<"metadata", "MalformedAttributePayload">> \in result.out.errs)

\* C20: attribute equality.  Two attributes compare equal exactly when
\* their types are equal, their raw values coerce to the same value, their
\* metadata (the empty mapping where none was supplied) are equal and, for
\* NamedContextAttribute, their names are equal.
C20_AttributeEquality ==
    (IsDone("eq") /\ result.out.ok)
    => LET p == call.data[1].obj
           q == call.data[2].obj
           meta(r) == IF "metadata" \in r.keys THEN r.metadata ELSE EmptyDict
       IN (result.out.val = PyBool(TRUE))
          <=> /\ TagEq(TypeField(p).val, TypeField(q).val)
              /\ PyEq(Coerced(p.value, TypeField(p).val).val,
                      Coerced(q.value, TypeField(q).val).val)
              /\ meta(p) = meta(q)
              /\ p.name = q.name

\* C21: schema factory.  For every sample, create_context_entity_model
\* returns a model whose required fields are the sample's keys other than id
\* and type: the model rejects a payload that lacks one of them, and accepts
\* a payload with a valid id and type that has all of them, every attribute
\* being well-formed.
C21_SchemaFactory ==
    IsDone("create_context_entity_model")
    => LET required == {call.sample[i] : i \in 1..Len(call.sample)} \ EntityFields
           wellFormed == /\ ContextEntity(call.id, call.type, <<>>).ok
                         /\ \A i \in 1..Len(call.data) : ContextAttribute(call.data[i].obj).ok
       IN /\ result.out.exc # "ConfigError"
          /\ ~(required \subseteq Keys(call.data)) => ~result.out.ok
          /\ (required \subseteq Keys(call.data) /\ wellFormed) => result.out.ok

\* a type string of allowed length with a * in it is rejected with a
\* CharsetViolation of the type field
StarRule(type, out) ==
    (Len(type) \in 1..256 /\ \E i \in 1..Len(type) : type[i] = 42)
    => (~out.ok /\ <<"type", "CharsetViolation">> \in out.errs)

\* C22: type-class fields forbid *.  Constructing a ContextEntity whose type,
\* a ContextAttribute whose type tag, or a metadata record whose type
\* contains a * fails with a CharsetViolation of the type field, the same
\* for all three.
C22_TypeStarForbidden ==
    /\ (IsDone("ContextEntity") /\ call.data = <<>>) => StarRule(call.type, result.out)
    /\ (IsDone("ContextAttribute") /\ "type" \in call.p.keys)
         => StarRule(call.p.type.tag, result.out)
    /\ (IsDone("NamedContextMetadata") /\ "type" \in call.p.keys)
         => StarRule(call.p.type.tag, result.out)

\* C23: attribute defaults.  An attribute constructed without a type (and
\* with a value) is built with the text type tag and a str as its value; an
\* attribute built without metadata, or with the empty mapping as metadata,
\* holds the empty mapping as its metadata.
C23_AttributeDefaults ==
    IsDone("ContextAttribute")
    => LET noMetadata == "metadata" \notin call.p.keys \/ call.p.metadata = EmptyDict
       IN /\ ("type" \notin call.p.keys /\ "value" \in call.p.keys /\ noMetadata)
               => result.out.ok
          /\ ("type" \notin call.p.keys /\ result.out.ok)
               => /\ TagEq(result.out.val.type, Member(DataTypes_TEXT))
                  /\ result.out.val.value.k = "str"
          /\ (noMetadata /\ result.out.ok) => result.out.val.metadata = EmptyDict

\* ContextAttribute(value=20) was built as a Text with value "20.0" and the
\* empty mapping as metadata
C23_Witness ==
    /\ IsDone("ContextAttribute") /\ call.p.keys = {"value"} /\ call.p.value = PyInt(20)
    /\ result.out.ok
    /\ result.out.val.type = Member(DataTypes_TEXT)
    /\ result.out.val.value = PyStr(<<50, 48, 46, 48>>)
    /\ result.out.val.metadata = EmptyDict

\* C25: the type is established before the value is validated.  When an
\* attribute is built, its value is the raw value coerced against the type
\* of the same payload (the text tag when the payload has none); when the
\* supplied type is invalid, the constructor fails and the failure reports a
\* violation of the type field.
C25_TypeBeforeValue ==
    (IsDone("ContextAttribute") /\ "value" \in call.p.keys)
    => /\ result.out.ok
            => result.out.val.value
                 = Coerced(call.p.value,
                           IF "type" \in call.p.keys THEN call.p.type
                           ELSE Member(DataTypes_TEXT)).val
       /\ ~TypeField(call.p).ok
            => /\ ~result.out.ok
               /\ \E kind \in {"LengthViolation", "CharsetViolation"} :
                      <<"type", kind>> \in result.out.errs

\* C28: the schema factory does not change the validation rules.  For a
\* model the factory returned: a payload the model accepts is accepted by
\* ContextEntity as well, and the two objects have the same id, the same
\* type and the same attribute map (as a mapping); a payload ContextEntity
\* rejects is rejected by the model.
C28_FactoryKeepsRules ==
    (IsDone("create_context_entity_model") /\ result.out.exc # "ConfigError")
    => /\ result.out.ok
            => /\ ContextEntity(call.id, call.type, call.data).ok
               /\ ContextEntity(call.id, call.type, call.data).val.id = entity.id
               /\ ContextEntity(call.id, call.type, call.data).val.type = entity.type
               /\ {ContextEntity(call.id, call.type, call.data).val.attrs[i] :
                       i \in 1..Len(call.data)}
                     = {entity.attrs[i] : i \in 1..Len(entity.attrs)}
       /\ ~ContextEntity(call.id, call.type, call.data).ok => ~result.out.ok

\* a model generated from the sample keys (temperature, a) accepted a
\* payload that has a before temperature
C28_Witness ==
    /\ IsDone("create_context_entity_model") /\ result.out.ok
    /\ call.sample = <<Temperature, <<97>>>>
    /\ Len(call.data) = 2 /\ call.data[1].name = <<97>> /\ call.data[2].name = Temperature
    /\ entity.exists /\ Len(entity.attrs) = 2

\* C30: transport exclusivity of Notification.  No Notification is built
\* with both http and httpCustom set; a call that gives a value other than
\* None for both fails with a ValidationError; a call that gives a valid
\* value for exactly one of them, and nothing or None for the other, builds
\* the Notification.
C30_TransportExclusive ==
    IsDone("Notification")
    => /\ result.out.ok
            => (result.out.val.http.k = "none" \/ result.out.val.httpCustom.k = "none")
       /\ (call.http.k = "dict" /\ call.httpCustom.k = "dict")
            => (~result.out.ok /\ result.out.exc = "ValidationError")
       /\ (call.http.k = "dict" /\ AnyHttpUrl(call.http.url) /\ call.httpCustom.k # "dict")
            => result.out.ok
       /\ (call.httpCustom.k = "dict" /\ AnyHttpUrl(call.httpCustom.url) /\ call.http.k # "dict")
            => result.out.ok

----------------------------------------------------------------------------
(* The entity state machine: one entity object is constructed, then        *)
(* mutated and queried in any order.                                       *)

MachineNames == {<<97>>, <<98>>}

MachinePayloads ==
    { Payload({"type", "value"}, PlainStr(DataTypes_NUMBER), PyInt(20), PyNone),
      Payload({"type", "value"}, PlainStr(DataTypes_NUMBER), PyStr(<<97>>), PyNone),
      Payload({"type", "value"}, PlainStr(DataTypes_RELATIONSHIP), PyStr(<<97>>), PyNone),
      Payload({"type", "value"}, Member(DataTypes_RELATIONSHIP), PyStr(<<97>>), PyNone),
      Payload(AttributeKeys, PlainStr(DataTypes_TEXT), PyStr(<<49>>), SomeMetadata) }

\* {"type": "Number"}: a raw attribute without a value
NoValue == Payload({"type"}, PlainStr(DataTypes_NUMBER), PyNone, PyNone)

\* **data of the constructor call: up to two attributes
MachineData ==
    {<<>>} \cup {<<Item(k, p)>> : k \in MachineNames, p \in MachinePayloads}
        \cup {<<Item(<<97>>, NoValue)>>}
        \cup {<<Item(<<97, 63>>, Payload({"type", "value"}, PlainStr(DataTypes_NUMBER), PyInt(20), PyNone))>>}
        \cup {<<Item(<<97>>, p), Item(<<98>>, q)>> : p \in MachinePayloads, q \in MachinePayloads}

\* the ContextAttribute objects a caller has built beforehand
BuiltAttributes ==
    { ContextAttribute(Payload({"type", "value"}, PlainStr(DataTypes_NUMBER), PyInt(20), PyNone)).val,
      ContextAttribute(Payload({"type", "value"}, Member(DataTypes_RELATIONSHIP), PyStr(<<97>>), PyNone)).val }

\* values handed to add_properties / assignment: built attributes, and a
\* raw dict
AttributeArguments ==
    BuiltAttributes
        \cup {Payload({"type", "value"}, PlainStr(DataTypes_RELATIONSHIP), PyStr(<<97>>), PyNone)}

\* the mapping handed to add_properties: one or two entries
AttributeBatches ==
    {<<Item(k, a)>> : k \in MachineNames \cup {<<105, 100>>}, a \in AttributeArguments}
        \cup {<<Item(<<116, 121, 112, 101>>, a)>> : a \in BuiltAttributes}
        \cup {<<Item(k, a), Item(<<98>>, b)>> :
                k \in {<<97>>, <<105, 100>>}, a \in AttributeArguments, b \in BuiltAttributes}
        \cup {<<Item(<<98>>, a), Item(<<105, 100>>, b)>> : a \in BuiltAttributes, b \in BuiltAttributes}
        \cup {<<Item(<<97>>, NoValue)>>}

\* the list handed to add_properties: no or one NamedContextAttribute
AttributeLists ==
    {<<>>} \cup {<<Item(k, NamedContextAttribute(Named(a, k)).val)>> :
                    k \in MachineNames, a \in BuiltAttributes}

E2 == <<69, 50>>

\* entity.<name> = value
Assignments ==
    {Item(k, a) : k \in MachineNames, a \in AttributeArguments}
        \cup {Item(<<105, 100>>, Scalar(PyStr(v))) : v \in {E2, <<97, 63>>}}

\* the attribute whose fields are assigned: a
AssignedNames == {<<97>>}

\* entity.<name>.value = v and entity.<name>.type = t
FieldAssignments ==
    {[field |-> "value", new |-> Payload({"value"}, PlainStr(<<>>), v, PyNone)] :
        v \in {PyInt(25), PyStr(<<97>>)}}
        \cup {[field |-> "type", new |-> Payload({"type"}, t, PyNone, PyNone)] :
                t \in {PlainStr(DataTypes_RELATIONSHIP), Member(DataTypes_RELATIONSHIP)}}

\* a mutating call c with effect r
Mutated(c, r) ==
    /\ call' = c
    /\ result' = Done(r.out)
    /\ entity' = r.ent
    /\ UNCHANGED build

\* a query c with outcome out
Queried(c, out) ==
    /\ call' = c
    /\ result' = Done(IF out.ok THEN Ok(PyNone) ELSE out)
    /\ UNCHANGED <<entity, build>>

Init ==
    /\ call = NoCall
    /\ result = Pending
    /\ entity = NoEntity
    /\ build \in Builds

Construct ==
    /\ ~entity.exists
    /\ \E data \in MachineData :
         Constructed(Call("ContextEntity", E1, Room, data, NoPayload, ""),
                     ContextEntity(E1, Room, data))

AddProperties ==
    /\ entity.exists
    /\ \E attrs \in AttributeBatches :
         Mutated(Call("add_properties", <<>>, <<>>, attrs, NoPayload, "dict"),
                 add_properties(entity, attrs, FALSE))

AddPropertiesList ==
    /\ entity.exists
    /\ \E attrs \in AttributeLists :
         Mutated(Call("add_properties", <<>>, <<>>, attrs, NoPayload, "list"),
                 add_properties(entity, attrs, TRUE))

SetAttribute ==
    /\ entity.exists
    /\ \E a \in Assignments :
         Mutated(Call("setattr", <<>>, <<>>, <<a>>, NoPayload, ""),
                 setattr_(entity, a.name, a.obj))

SetAttributeField ==
    /\ entity.exists
    /\ \E k \in AssignedNames, f \in FieldAssignments :
         Mutated(Call("set_field", <<>>, <<>>, <<>>, Named(f.new, k), f.field),
                 set_field(entity, k, f.field, f.new))

GetProperties ==
    /\ entity.exists
    /\ \E format \in {"dict", "list"} :
         Queried(Call("get_properties", <<>>, <<>>, <<>>, NoPayload, format),
                 get_properties(entity, format))

GetRelationships ==
    /\ entity.exists
    /\ \E format \in {"dict", "list"} :
         Queried(Call("get_relationships", <<>>, <<>>, <<>>, NoPayload, format),
                 get_relationships(entity, format))

\* a caller changes an object of a view it was given
MutateView ==
    /\ entity.exists
    /\ \E format \in {"dict", "list"}, rel \in BOOLEAN, k \in AssignedNames :
         Mutated(Call("mutate_view", <<>>, <<>>, <<Item(k, Scalar(PyInt(25)))>>, NoPayload, format),
                 mutate_view(entity, format, rel, k, PyInt(25)))

Next ==
    \/ MutateView
    \/ Construct
    \/ AddProperties
    \/ AddPropertiesList
    \/ SetAttribute
    \/ SetAttributeField
    \/ GetProperties
    \/ GetRelationships

Spec == Init /\ [][Next]_vars

----------------------------------------------------------------------------
(* Properties of the entity state machine (checked under Spec) *)

\* C2: partition completeness.  In every state reached by construct and any
\* sequence of add_properties calls and assignments, get_properties('dict')
\* and get_relationships('dict') both return, their key sets are disjoint,
\* and the union of their key sets is the set of the entity's attributes.
C2_Partition ==
    entity.exists
    => LET props == get_properties(entity, "dict")
           rels == get_relationships(entity, "dict")
       IN /\ props.ok /\ rels.ok
          /\ Keys(props.val) \cap Keys(rels.val) = {}
          /\ Keys(props.val) \cup Keys(rels.val) = AttributeNames(entity)

\* C3: relationship classification.  Whenever both dict views return, an
\* attribute is a key of get_relationships exactly when the text of its type
\* equals "Relationship" (whether held as the member of the enumeration or as
\* a plain str), and a key of get_properties otherwise.
C3_Classification ==
    (/\ entity.exists
     /\ get_properties(entity, "dict").ok
     /\ get_relationships(entity, "dict").ok)
    => \A i \in 1..Len(entity.attrs) :
          LET a == entity.attrs[i]
              isRel == TagEq(a.obj.type, Member(DataTypes_RELATIONSHIP))
          IN /\ a.name \in Keys(get_relationships(entity, "dict").val) <=> isRel
             /\ a.name \in Keys(get_properties(entity, "dict").val) <=> ~isRel

\* C12: merge semantics of add_properties.  A successful add_properties(attrs)
\* leaves id and type as they were, leaves every attribute whose name is not
\* in attrs as it was, binds every name in attrs to exactly the supplied
\* object, and adds no other name.
C12_MergeSemantics ==
    [][(call'.op = "add_properties" /\ result'.out.ok)
       => /\ entity'.id = entity.id /\ entity'.type = entity.type
          /\ \A i \in 1..Len(entity.attrs) :
                entity.attrs[i].name \notin Keys(call'.data)
                => \E j \in 1..Len(entity'.attrs) : entity'.attrs[j] = entity.attrs[i]
          /\ \A i \in 1..Len(call'.data) :
                \E j \in 1..Len(entity'.attrs) : entity'.attrs[j] = call'.data[i]
          /\ AttributeNames(entity') = AttributeNames(entity) \cup Keys(call'.data)
          /\ Len(entity'.attrs) = Cardinality(AttributeNames(entity'))]_vars

\* add_properties({a: ...}) succeeded on an entity that also holds b
C12_Witness ==
    /\ call.op = "add_properties" /\ result.out.ok
    /\ Keys(call.data) = {<<97>>}
    /\ AttributeNames(entity) = {<<97>>, <<98>>}
    /\ \E j \in 1..Len(entity.attrs) : entity.attrs[j] = call.data[1]

\* C13: add_properties accepts a list of NamedContextAttribute.  Called with
\* a list, add_properties returns, and afterwards every name of the list is
\* bound to the ContextAttribute with the type, value and metadata of its
\* list entry.
C13_ListAccepted ==
    (call.op = "add_properties" /\ call.arg = "list")
    => /\ result.out.ok
       /\ \A i \in 1..Len(call.data) :
             \E j \in 1..Len(entity.attrs) :
                entity.attrs[j] =
                    Item(call.data[i].name,
                         Record("ContextAttribute", AttributeKeys, call.data[i].obj.type,
                                call.data[i].obj.value, call.data[i].obj.metadata, <<>>))

\* C14: mutation re-validates.  After any sequence of add_properties calls
\* and assignments, everything in the attribute map is a validated
\* attribute: a ContextAttribute object whose type passes the constraints of
\* the type field and whose value is one the validation of the value field
\* accepts for that type.
C14_MutationRevalidates ==
    entity.exists
    => \A i \in 1..Len(entity.attrs) :
          LET obj == entity.attrs[i].obj
          IN /\ obj.cls = "ContextAttribute"
             /\ TypeField(AsDict(obj)).ok
             /\ ValueField(AsDict(obj), TypeField(AsDict(obj))).ok

\* C15: add_properties is all-or-nothing over its batch.  When a call of
\* add_properties raises, the entity (id, type and attribute map) is as it
\* was before the call.
C15_BatchAllOrNothing ==
    [][(call'.op = "add_properties" /\ ~result'.out.ok) => entity' = entity]_vars

\* C16: canonical-value invariant.  In every reachable state the value of
\* every ContextAttribute of the entity is the outcome of coercing it against
\* the attribute's current type: coercion accepts the stored value and gives
\* back that same value.
C16_CanonicalValue ==
    entity.exists
    => \A i \in 1..Len(entity.attrs) :
          entity.attrs[i].obj.cls = "ContextAttribute"
          => Coerced(entity.attrs[i].obj.value, entity.attrs[i].obj.type)
               = Ok(entity.attrs[i].obj.value)

\* C17: identity immutability.  Once the entity is constructed (always with
\* id E1 and type Room), its id and type keep the values given to the
\* constructor in every later state.
C17_IdentityImmutable ==
    entity.exists => (entity.id = E1 /\ entity.type = Room)

\* an item of a call's data that is a raw attribute without a value
LacksValue(it) == it.obj.cls = "dict" /\ "value" \notin it.obj.keys

\* C24: a missing value is rejected.  A raw attribute without a value field
\* does not parse (the error is a MalformedAttributePayload of the value
\* field); a constructor call whose data holds one fails and binds no
\* entity, and an add_properties call whose batch holds one fails.
C24_MissingValueRejected ==
    (/\ call.op \in {"ContextEntity", "add_properties"}
     /\ \E i \in 1..Len(call.data) : LacksValue(call.data[i]))
    => /\ \A i \in 1..Len(call.data) :
             LacksValue(call.data[i])
             => <<"value", "MalformedAttributePayload">> \in ContextAttribute(call.data[i].obj).errs
       /\ ~result.out.ok
       /\ call.op = "ContextEntity" => ~entity.exists

\* the names of a sequence of items, in order
NamesOf(items) == [i \in 1..Len(items) |-> items[i].name]

\* the list view l is a sequence of NamedContextAttribute with pairwise
\* distinct names that maps every name to the type, value and metadata the
\* dict view d holds for it, in the order of the entity's attribute map
ViewsAgree(d, l) ==
    /\ l.ok
    /\ Cardinality(Keys(l.val)) = Len(l.val)
    /\ Keys(l.val) = Keys(d.val)
    /\ \A i \in 1..Len(l.val) :
          /\ l.val[i].obj.cls = "NamedContextAttribute"
          /\ l.val[i].obj.name = l.val[i].name
          /\ \E j \in 1..Len(d.val) :
                /\ d.val[j].name = l.val[i].name
                /\ d.val[j].obj.type = l.val[i].obj.type
                /\ d.val[j].obj.value = l.val[i].obj.value
                /\ d.val[j].obj.metadata = l.val[i].obj.metadata
    /\ NamesOf(l.val) = SelectSeq(NamesOf(entity.attrs), LAMBDA n : n \in Keys(l.val))

\* C26: the list view and the dict view agree.  Whenever the dict view of
\* get_properties (of get_relationships) returns, the list view returns a
\* sequence of NamedContextAttribute with pairwise distinct names, holding
\* for every name the type, value and metadata of the dict view, in the
\* order of the entity's attribute map.
C26_ViewsAgree ==
    entity.exists
    => /\ get_properties(entity, "dict").ok
            => ViewsAgree(get_properties(entity, "dict"), get_properties(entity, "list"))
       /\ get_relationships(entity, "dict").ok
            => ViewsAgree(get_relationships(entity, "dict"), get_relationships(entity, "list"))

\* C27: reserved keys never enter the attribute map.  After every step the
\* attribute map of the entity has no entry named id or type, the id and
\* type of a newly constructed entity are the strings given to the
\* constructor, and an add_properties call, whatever its batch, leaves id
\* and type as they were.
C27_ReservedKeysExcluded ==
    [][entity'.exists
       => /\ AttributeNames(entity') \cap EntityFields = {}
          /\ (call'.op = "ContextEntity" /\ result'.out.ok)
                => (Serialize(entity').id = call'.id /\ Serialize(entity').type = call'.type)
          /\ call'.op = "add_properties"
                => (Serialize(entity').id = Serialize(entity).id
                    /\ Serialize(entity').type = Serialize(entity).type)]_vars

\* add_properties with a batch that has the key id or type was called, and
\* the entity has no attribute of that name and the id and type it had
C27_Witness ==
    /\ call.op = "add_properties" /\ Keys(call.data) \cap EntityFields # {}
    /\ entity.exists /\ entity.id = E1 /\ entity.type = Room
    /\ AttributeNames(entity) \cap EntityFields = {}

====
